---- MODULE Spec2Model ----
(***************************************************************************)
(* Model of src/main.py: the in-memory key-value store InMemoryDB with its *)
(* snapshot history (set / get / unset / counts / find / begin / rollback  *)
(* / commit) and the Command objects that call it and print its results.   *)
(*                                                                         *)
(* A Python dict is modelled as the sequence of its <<key, value>> items   *)
(* in insertion order (dicts iterate in insertion order), the defaultdict  *)
(* _counts as a function whose DOMAIN is the set of entries that exist,    *)
(* and a printed line as the sequence of its space-separated words.        *)
(***************************************************************************)
EXTENDS Integers, Sequences, FiniteSets, TLC

VARIABLES
    _db,        \* InMemoryDB._db: items <<key, value>> in insertion order
    _counts,    \* InMemoryDB._counts: value -> int, entries that exist only
    _history,   \* InMemoryDB._history: list of (db, counts) snapshots
    out,        \* the line printed by the last command, <<>> if it printed none
    begun,      \* history variable: begin() calls since the last commit() that cleared _history (or since the start)
    undone,     \* history variable: rollback() calls that popped a snapshot since then
    beginAt,    \* history variable: index in _history of the snapshot pushed by the last begin(), 0 once a rollback or commit followed it
    session,    \* history variable: the commands executed so far, while they begin one of Scripts; OffScript from then on
    saves,      \* history variable: set() calls and unset() calls of a present key since the last commit() that cleared _history
    sinceBegin, \* history variable: those of them that followed the last begin(), 0 once a rollback or commit followed it
    running     \* main: the command loop has not been left (no END executed)

vars == <<_db, _counts, _history, out, begun, undone, beginAt, session, saves,
          sinceBegin, running>>

\* ---------------------------------------------------------------- inputs

\* Keys and values the commands are issued with (non-empty words of a line).
Keys == {"a", "b"}
Values == {"1", "2"}

\* Longest _history the model explores.
MaxDepth == 2

\* Most begin() calls, and most popping rollback() calls, counted between two
\* successful commits.
MaxCalls == 2

\* The keys and the longest _history of the sessions that exercise find.
FindKeys == {"a", "b", "c"}
FindDepth == 1

\* The key and the longest _history of the nested-transaction sessions.
NestKeys == {"a"}
NestDepth == 4

\* Python's None, returned by dict.get for an absent key.
None == "None"

\* Code points of the one-letter keys: str comparison in sorted() compares them.
Ord == [k \in FindKeys |-> CASE k = "a" -> 97 [] k = "b" -> 98 [] k = "c" -> 99]

\* ------------------------------------------------------------ dict helpers

\* key in d
DictHas(d, k) == \E i \in 1..Len(d) : d[i][1] = k

\* d.get(k): the value, or None
DictGet(d, k) ==
    IF DictHas(d, k)
    THEN d[CHOOSE i \in 1..Len(d) : d[i][1] = k][2]
    ELSE None

\* d[k] = v: an existing key keeps its position, a new key goes last
DictStore(d, k, v) ==
    IF DictHas(d, k)
    THEN [i \in 1..Len(d) |-> IF d[i][1] = k THEN <<k, v>> ELSE d[i]]
    ELSE Append(d, <<k, v>>)

\* d.pop(k) for a key that is present: the dict without it
DictPop(d, k) == SelectSeq(d, LAMBDA item : item[1] # k)

\* c.get(v, 0) on the counter: reads never create an entry
CountsGet(c, v) == IF v \in DOMAIN c THEN c[v] ELSE 0

\* c[v] += delta on a defaultdict(int): a missing entry is created at 0 first
CountsAdd(c, v, delta) ==
    IF v \in DOMAIN c
    THEN [c EXCEPT ![v] = @ + delta]
    ELSE c @@ (v :> delta)

\* The store as one record, the argument and result of the methods below.
Self == [db |-> _db, counts |-> _counts, history |-> _history, out |-> <<>>]

\* ------------------------------------------------------ InMemoryDB methods

\* _save_state as it would be if it skipped a state equal to the last snapshot
_save_state_SkipsUnchanged(self) ==
    IF /\ self.history # <<>>
       /\ self.history[Len(self.history)] = <<self.db, self.counts>>
    THEN self
    ELSE [self EXCEPT !.history = Append(self.history, <<self.db, self.counts>>)]

\* _save_state: append a deep copy of (db, counts)
_save_state(self) ==
    [self EXCEPT !.history = Append(self.history, <<self.db, self.counts>>)]

\* set(key, value) as it would be without the decrement of the old value's count
set_KeepsOldCount(self, key, value) ==
    LET saved == _save_state(self)
    IN  [saved EXCEPT !.db = DictStore(saved.db, key, value),
                      !.counts = CountsAdd(saved.counts, value, 1)]

\* set(key, value) as it would be without the test of old_value
set_DecrementsUnconditionally(self, key, value) ==
    LET saved == _save_state(self)
        old_value == DictGet(saved.db, key)
        dec == CountsAdd(saved.counts, old_value, -1)
    IN  [saved EXCEPT !.db = DictStore(saved.db, key, value),
                      !.counts = CountsAdd(dec, value, 1)]

\* set(key, value) as it would be if _save_state appended (self._db,
\* self._counts) themselves: the snapshot changes with the live state
set_SharesSnapshot(self, key, value) ==
    LET old_value == DictGet(self.db, key)
        dec == IF old_value # None /\ old_value # ""
               THEN CountsAdd(self.counts, old_value, -1)
               ELSE self.counts
        db == DictStore(self.db, key, value)
        index == CountsAdd(dec, value, 1)
    IN  [self EXCEPT !.db = db,
                     !.counts = index,
                     !.history = Append(self.history, <<db, index>>)]

\* set(key, value) as it would be if only a new key counted for its value
set_CountsNewKeysOnly(self, key, value) ==
    LET saved == _save_state(self)
        old_value == DictGet(saved.db, key)
    IN  [saved EXCEPT !.db = DictStore(saved.db, key, value),
                      !.counts = IF old_value # None
                                 THEN CountsAdd(saved.counts, old_value, -1)
                                 ELSE CountsAdd(saved.counts, value, 1)]

\* set(key, value)
set(self, key, value) ==
    LET saved == _save_state(self)
        old_value == DictGet(saved.db, key)
        dec == IF old_value # None /\ old_value # ""
               THEN CountsAdd(saved.counts, old_value, -1)
               ELSE saved.counts
    IN  [saved EXCEPT !.db = DictStore(saved.db, key, value),
                      !.counts = CountsAdd(dec, value, 1)]

\* get(key)
get(self, key) == DictGet(self.db, key)

\* unset(key) as it would be with _save_state called before the test of the key
unset_AlwaysSaves(self, key) ==
    LET saved == _save_state(self)
    IN  IF DictHas(saved.db, key)
        THEN [saved EXCEPT !.db = DictPop(saved.db, key),
                           !.counts = CountsAdd(saved.counts, DictGet(saved.db, key), -1)]
        ELSE saved

\* unset(key) as it would be with _save_state called after the key is removed
unset_SavesAfterPop(self, key) ==
    IF DictHas(self.db, key)
    THEN _save_state([self EXCEPT !.db = DictPop(self.db, key),
                                  !.counts = CountsAdd(self.counts, DictGet(self.db, key), -1)])
    ELSE self

\* unset(key)
unset(self, key) ==
    IF DictHas(self.db, key)
    THEN LET saved == _save_state(self)
             old_value == DictGet(saved.db, key)
         IN  [saved EXCEPT !.db = DictPop(saved.db, key),
                           !.counts = CountsAdd(saved.counts, old_value, -1)]
    ELSE self

\* str(n) as print() shows an int
IntStr(n) ==
    IF n >= 0
    THEN <<"0", "1", "2", "3", "4", "5", "6", "7", "8", "9">>[n + 1]
    ELSE <<"-1", "-2", "-3", "-4", "-5", "-6", "-7", "-8", "-9">>[0 - n]

\* counts(value) as it would be if it read self._counts[value], which
\* creates the entry in a defaultdict
counts_CreatesEntry(self, value) ==
    [self EXCEPT !.counts = CountsAdd(self.counts, value, 0),
                 !.out = <<IntStr(CountsGet(self.counts, value))>>]

\* counts(value): prints the counter's entry, 0 if there is none
counts(self, value) ==
    [self EXCEPT !.out = <<IntStr(CountsGet(self.counts, value))>>]

\* x < y on the keys, as str.__lt__ decides it for one-letter strings
KeyLess(x, y) == Ord[x] < Ord[y]

\* list.insert of x before the first element that is not smaller
RECURSIVE Insert(_, _)
Insert(x, sortedSeq) ==
    IF sortedSeq = <<>> THEN <<x>>
    ELSE IF KeyLess(Head(sortedSeq), x)
         THEN <<Head(sortedSeq)>> \o Insert(x, Tail(sortedSeq))
         ELSE <<x>> \o sortedSeq

\* sorted(keys)
RECURSIVE sorted(_)
sorted(keys) ==
    IF keys = <<>> THEN <<>> ELSE Insert(Head(keys), sorted(Tail(keys)))

\* [k for k, v in d.items() if v == value]: the keys in the dict's order
KeysWith(d, value) ==
    LET items == SelectSeq(d, LAMBDA item : item[2] = value)
    IN  [i \in 1..Len(items) |-> items[i][1]]

\* find(value) as it would be without sorted()
find_Unsorted(self, value) ==
    LET keys == KeysWith(self.db, value)
    IN  [self EXCEPT !.out = IF keys # <<>> THEN keys ELSE <<"NULL">>]

\* find(value): prints the sorted keys joined by spaces, or NULL
find(self, value) ==
    LET keys == KeysWith(self.db, value)
    IN  [self EXCEPT !.out = IF keys # <<>> THEN sorted(keys) ELSE <<"NULL">>]

\* begin() as it would be if it opened a transaction only when none is open
begin_NotNested(self) ==
    IF self.history = <<>>
    THEN [self EXCEPT !.history = Append(self.history, <<self.db, self.counts>>)]
    ELSE self

\* begin()
begin(self) ==
    [self EXCEPT !.history = Append(self.history, <<self.db, self.counts>>)]

\* The line rollback and commit print when _history is empty.
NoTransaction == <<"NO", "TRANSACTION">>

\* rollback() as it would be if it printed nothing on an empty _history
rollback_Silent(self) ==
    IF self.history = <<>>
    THEN self
    ELSE LET top == self.history[Len(self.history)]
         IN  [self EXCEPT !.db = top[1],
                          !.counts = top[2],
                          !.history = SubSeq(self.history, 1, Len(self.history) - 1)]

\* rollback() as it would be if it took the mapping of the snapshot and kept the index
rollback_KeepsCounts(self) ==
    IF self.history = <<>>
    THEN [self EXCEPT !.out = NoTransaction]
    ELSE LET top == self.history[Len(self.history)]
         IN  [self EXCEPT !.db = top[1],
                          !.history = SubSeq(self.history, 1, Len(self.history) - 1)]

\* rollback() as it would be if it restored the oldest snapshot
rollback_RestoresOldest(self) ==
    IF self.history = <<>>
    THEN [self EXCEPT !.out = NoTransaction]
    ELSE [self EXCEPT !.db = self.history[1][1],
                      !.counts = self.history[1][2],
                      !.history = SubSeq(self.history, 1, Len(self.history) - 1)]

\* rollback()
rollback(self) ==
    IF self.history = <<>>
    THEN [self EXCEPT !.out = NoTransaction]
    ELSE LET top == self.history[Len(self.history)]
         IN  [self EXCEPT !.db = top[1],
                          !.counts = top[2],
                          !.history = SubSeq(self.history, 1, Len(self.history) - 1)]

\* commit() as it would be if it dropped the innermost snapshot only
commit_InnermostOnly(self) ==
    IF self.history = <<>>
    THEN [self EXCEPT !.out = NoTransaction]
    ELSE [self EXCEPT !.history = SubSeq(self.history, 1, Len(self.history) - 1)]

\* commit()
commit(self) ==
    IF self.history = <<>>
    THEN [self EXCEPT !.out = NoTransaction]
    ELSE [self EXCEPT !.history = <<>>]

\* ------------------------------------------------- the session's commands

\* begin(); set(a,1); begin(); set(a,2) on a fresh store
NestedSets == << <<"BEGIN">>, <<"SET", "a", "1">>, <<"BEGIN">>, <<"SET", "a", "2">> >>

\* ... followed by rollback(); rollback()
RollbackScript == NestedSets \o << <<"ROLLBACK">>, <<"ROLLBACK">> >>

\* ... followed by commit(); rollback()
CommitScript == NestedSets \o << <<"COMMIT">>, <<"ROLLBACK">> >>

\* set(a,1); begin(); unset(b); rollback(): an unset of a missing key in an
\* open transaction
UnsetScript ==
    << <<"SET", "a", "1">>, <<"BEGIN">>, <<"UNSET", "b">>, <<"ROLLBACK">> >>

\* SET a 10; GET a; SET b 20; COUNTS 10; BEGIN; SET a 20; COUNTS 20; FIND 20;
\* ROLLBACK; COUNTS 20; GET a
EndToEndScript ==
    << <<"SET", "a", "10">>, <<"GET", "a">>, <<"SET", "b", "20">>,
       <<"COUNTS", "10">>, <<"BEGIN">>, <<"SET", "a", "20">>, <<"COUNTS", "20">>,
       <<"FIND", "20">>, <<"ROLLBACK">>, <<"COUNTS", "20">>, <<"GET", "a">> >>

\* begin(); set(a,1); rollback(); set(a,2): a mutation after a rollback, with
\* the snapshot of begin() still on the stack
IndependenceScript ==
    << <<"BEGIN">>, <<"SET", "a", "1">>, <<"ROLLBACK">>, <<"SET", "a", "2">> >>

\* set(a,1); set(a,1): a key set again to the value it has
SameValueScript == << <<"SET", "a", "1">>, <<"SET", "a", "1">> >>

\* set(a,1); unset(a); rollback(): an unset undone with no begin()
UndoScript == << <<"SET", "a", "1">>, <<"UNSET", "a">>, <<"ROLLBACK">> >>

\* The sessions that are followed command by command.
Scripts ==
    {RollbackScript, CommitScript, UnsetScript, EndToEndScript,
     IndependenceScript, SameValueScript, UndoScript}

\* session once the commands executed are the beginning of no script.
OffScript == << <<"OFF">> >>

\* s is the beginning of t
IsPrefix(s, t) == Len(s) <= Len(t) /\ SubSeq(t, 1, Len(s)) = s

\* The store after a command, and the history variables that follow it.
Becomes(self, command) ==
    /\ running
    /\ running' = running
    /\ _db' = self.db
    /\ _counts' = self.counts
    /\ _history' = self.history
    /\ out' = self.out
    /\ session' = IF /\ session # OffScript
                     /\ \E script \in Scripts : IsPrefix(Append(session, command), script)
                  THEN Append(session, command)
                  ELSE OffScript

\* InMemoryDB(): an empty store, nothing printed
Init ==
    /\ _db = <<>>
    /\ _counts = <<>>
    /\ _history = <<>>
    /\ out = <<>>
    /\ begun = 0
    /\ undone = 0
    /\ beginAt = 0
    /\ session = <<>>
    /\ saves = 0
    /\ sinceBegin = 0
    /\ running = TRUE

\* SetCommand.execute
SetCommand(key, value) ==
    /\ Becomes(set(Self, key, value), <<"SET", key, value>>)
    /\ saves' = saves + 1
    /\ sinceBegin' = IF beginAt > 0 THEN sinceBegin + 1 ELSE sinceBegin
    /\ UNCHANGED <<begun, undone, beginAt>>

\* GetCommand.execute: prints the value, NULL for None
GetCommand(key) ==
    /\ LET value == get(Self, key)
       IN  Becomes([Self EXCEPT !.out = IF value # None THEN <<value>> ELSE <<"NULL">>],
                   <<"GET", key>>)
    /\ UNCHANGED <<begun, undone, beginAt, saves, sinceBegin>>

\* UnsetCommand.execute
UnsetCommand(key) ==
    /\ Becomes(unset(Self, key), <<"UNSET", key>>)
    /\ saves' = IF DictHas(_db, key) THEN saves + 1 ELSE saves
    /\ sinceBegin' = IF DictHas(_db, key) /\ beginAt > 0
                     THEN sinceBegin + 1
                     ELSE sinceBegin
    /\ UNCHANGED <<begun, undone, beginAt>>

\* CountsCommand.execute
CountsCommand(value) ==
    /\ Becomes(counts(Self, value), <<"COUNTS", value>>)
    /\ UNCHANGED <<begun, undone, beginAt, saves, sinceBegin>>

\* FindCommand.execute
FindCommand(value) ==
    /\ Becomes(find(Self, value), <<"FIND", value>>)
    /\ UNCHANGED <<begun, undone, beginAt, saves, sinceBegin>>

\* BeginCommand.execute
BeginCommand ==
    /\ Becomes(begin(Self), <<"BEGIN">>)
    /\ begun' = begun + 1
    /\ undone' = undone
    /\ beginAt' = Len(_history) + 1
    /\ saves' = saves
    /\ sinceBegin' = 0

\* RollbackCommand.execute
RollbackCommand ==
    /\ Becomes(rollback(Self), <<"ROLLBACK">>)
    /\ begun' = begun
    /\ undone' = IF _history # <<>> THEN undone + 1 ELSE undone
    /\ beginAt' = 0
    /\ saves' = saves
    /\ sinceBegin' = 0

\* CommitCommand.execute
CommitCommand ==
    /\ Becomes(commit(Self), <<"COMMIT">>)
    /\ begun' = IF _history # <<>> THEN 0 ELSE begun
    /\ undone' = IF _history # <<>> THEN 0 ELSE undone
    /\ beginAt' = 0
    /\ saves' = IF _history # <<>> THEN 0 ELSE saves
    /\ sinceBegin' = 0

\* A command that may append to _history has room to.
Room(depth) == Len(_history) < depth

\* One command of the session, over the given keys and values.
Step(keys, values, depth) ==
    \/ \E key \in keys, value \in values : Room(depth) /\ SetCommand(key, value)
    \/ \E key \in keys : GetCommand(key)
    \/ \E key \in keys : (Room(depth) \/ ~DictHas(_db, key)) /\ UnsetCommand(key)
    \/ \E value \in values : CountsCommand(value)
    \/ \E value \in values : FindCommand(value)
    \/ Room(depth) /\ begun < MaxCalls /\ BeginCommand
    \/ (undone < MaxCalls \/ _history = <<>>) /\ RollbackCommand
    \/ CommitCommand

Next == Step(Keys, Values, MaxDepth)

Spec == Init /\ [][Next]_vars

\* Sessions on one key, with room for two nested transactions that each set it.
NextNest == Step(NestKeys, Values, NestDepth)

SpecNest == Init /\ [][NextNest]_vars

\* Sessions on three keys, for the order of the keys find prints.
NextFind == Step(FindKeys, Values, FindDepth)

SpecFind == Init /\ [][NextFind]_vars

\* ------------------------------------------------- CommandParser and main

\* A line is the sequence of its fields: words, and Blank for a run of whitespace.
Blank == " "

\* The words with one blank between them, as a line is usually typed.
RECURSIVE Join(_)
Join(words) ==
    IF Len(words) <= 1 THEN words
    ELSE <<Head(words), Blank>> \o Join(Tail(words))

\* The words with whitespace before, after and twice between them.
RECURSIVE Pad(_)
Pad(words) ==
    IF words = <<>> THEN <<Blank>>
    ELSE <<Blank, Blank, Head(words)>> \o Pad(Tail(words))

\* line.strip().split(): the words of the line
split(line) == SelectSeq(line, LAMBDA field : field # Blank)

\* str.upper() on the first word of the lines used here
upper(word) ==
    CASE word = "set" -> "SET"
      [] word = "get" -> "GET"
      [] word = "Begin" -> "BEGIN"
      [] word = "foo" -> "FOO"
      [] OTHER -> word

\* A Command object: its class and the arguments it was constructed with.
Command(class, args) == [class |-> class, args |-> args]

\* command_map.get(cmd, lambda parts: UnknownCommand())(parts)
command_map(cmd, parts) ==
    CASE cmd = "SET" ->
           IF Len(parts) = 3
           THEN Command("SetCommand", <<parts[2], parts[3]>>)
           ELSE Command("UnknownCommand", <<>>)
      [] cmd = "GET" ->
           IF Len(parts) = 2
           THEN Command("GetCommand", <<parts[2]>>)
           ELSE Command("UnknownCommand", <<>>)
      [] cmd = "UNSET" ->
           IF Len(parts) = 2
           THEN Command("UnsetCommand", <<parts[2]>>)
           ELSE Command("UnknownCommand", <<>>)
      [] cmd = "COUNTS" ->
           IF Len(parts) = 2
           THEN Command("CountsCommand", <<parts[2]>>)
           ELSE Command("UnknownCommand", <<>>)
      [] cmd = "FIND" ->
           IF Len(parts) = 2
           THEN Command("FindCommand", <<parts[2]>>)
           ELSE Command("UnknownCommand", <<>>)
      [] cmd = "BEGIN" -> Command("BeginCommand", <<>>)
      [] cmd = "ROLLBACK" -> Command("RollbackCommand", <<>>)
      [] cmd = "COMMIT" -> Command("CommitCommand", <<>>)
      [] cmd = "END" -> Command("EndCommand", <<>>)
      [] OTHER -> Command("UnknownCommand", <<>>)

\* parse(line): the Command, or the class None for a line without words
parse(line) ==
    LET parts == split(line)
    IN  IF parts = <<>>
        THEN Command(None, <<>>)
        ELSE command_map(upper(parts[1]), parts)

\* The line UnknownCommand prints.
UnknownLine == <<"UNKNOWN", "COMMAND">>

\* UnknownCommand.execute
UnknownCommand ==
    /\ Becomes([Self EXCEPT !.out = UnknownLine], <<"UNKNOWN">>)
    /\ UNCHANGED <<begun, undone, beginAt, saves, sinceBegin>>

\* EndCommand.execute: SystemExit, which main catches to leave the loop
EndCommand ==
    /\ running
    /\ running' = FALSE
    /\ UNCHANGED <<_db, _counts, _history, out, begun, undone, beginAt, session,
                   saves, sinceBegin>>

\* One iteration of main's loop on the line read: parse it and, if there is a
\* command, execute it.
Iteration(line, depth) ==
    \E command \in {parse(line)} :
        \/ command.class = None /\ running /\ UNCHANGED vars
        \/ /\ command.class = "SetCommand"
           /\ Room(depth)
           /\ SetCommand(command.args[1], command.args[2])
        \/ command.class = "GetCommand" /\ GetCommand(command.args[1])
        \/ /\ command.class = "UnsetCommand"
           /\ Room(depth) \/ ~DictHas(_db, command.args[1])
           /\ UnsetCommand(command.args[1])
        \/ command.class = "CountsCommand" /\ CountsCommand(command.args[1])
        \/ command.class = "FindCommand" /\ FindCommand(command.args[1])
        \/ /\ command.class = "BeginCommand"
           /\ Room(depth) /\ begun < MaxCalls
           /\ BeginCommand
        \/ /\ command.class = "RollbackCommand"
           /\ undone < MaxCalls \/ _history = <<>>
           /\ RollbackCommand
        \/ command.class = "CommitCommand" /\ CommitCommand
        \/ command.class = "EndCommand" /\ EndCommand
        \/ command.class = "UnknownCommand" /\ UnknownCommand

\* The loop of main over the lines it may read.
MainLoop(lines, depth) == \E line \in lines : Iteration(line, depth)

\* The words lines are made of: the nine verbs, two of them also in lower or
\* mixed case, and two words that are no verb; no, one, two or three arguments.
VerbWords ==
    {"SET", "GET", "UNSET", "COUNTS", "FIND", "BEGIN", "ROLLBACK", "COMMIT",
     "END", "set", "Begin", "FOO", "foo"}
ArgLists ==
    {<<>>, <<"a">>, <<"1">>, <<"a", "1">>, <<"b", "1">>, <<"a", "1", "b">>}

\* The lines of the sessions that exercise the parser, and their longest
\* _history: every verb word with every argument list, typed with single
\* blanks or with extra whitespace, and the empty line.
ParseLines ==
    {<<>>} \cup {Join(<<verb>> \o args) : verb \in VerbWords, args \in ArgLists}
           \cup {Pad(<<verb>> \o args) : verb \in VerbWords, args \in ArgLists}
ParseDepth == 1

NextParse == MainLoop(ParseLines, ParseDepth)

SpecParse == Init /\ [][NextParse]_vars

\* The lines of the end-to-end sessions, and their longest _history: the
\* lines of EndToEndScript and one line for each other kind of command.
EndToEndLines ==
    {Join(EndToEndScript[i]) : i \in 1..Len(EndToEndScript)}
        \cup {Join(<<"UNSET", "a">>), Join(<<"COMMIT">>), Join(<<"END">>),
              Join(<<"FOO">>), Pad(<<"get", "a">>), <<>>}
EndToEndDepth == 4

NextEndToEnd == MainLoop(EndToEndLines, EndToEndDepth)

SpecEndToEnd == Init /\ [][NextEndToEnd]_vars

\* ------------------------------------------------------------- properties

\* The number of keys whose value is value, by get.
Holders(value) == Cardinality({key \in Keys : get(Self, key) = value})

\* The store after the step, as the methods take it.
SelfAfter == [db |-> _db', counts |-> _counts', history |-> _history', out |-> <<>>]

\* C1: index consistency (I1): in every reachable state, for every value the
\* count that counts(value) reports is the number of keys k with
\* get(k) = value, a missing index entry counting as 0.
IndexConsistency ==
    \A value \in Values \cup DOMAIN _counts :
        counts(Self, value).out = <<IntStr(Holders(value))>>

\* C1 witness: two keys hold "1", and "2" has an index entry left at 0 by an
\* overwrite or unset, with a snapshot on the stack.
IndexConsistencyWitness ==
    /\ Holders("1") = 2
    /\ "2" \in DOMAIN _counts /\ _counts["2"] = 0
    /\ _history # <<>>

\* C2 (as claimed): on a fresh store, after begin(); set(a,1); begin();
\* set(a,2); rollback() get(a) is "1", and after one more rollback() get(a)
\* is absent.
NestedRollbackUndoesLevels ==
    /\ session = SubSeq(RollbackScript, 1, 5) => get(Self, "a") = "1"
    /\ session = RollbackScript => get(Self, "a") = None

\* C3 (as claimed): one rollback() after begin() and any set, unset, get,
\* counts and find commands restores the mapping and the index of the state
\* begin() was called in.
RollbackRestoresBegin ==
    [][(beginAt > 0 /\ RollbackCommand)
         => (_db' = _history[beginAt][1] /\ _counts' = _history[beginAt][2])]_vars

\* C4: a commit() with a non-empty snapshot stack empties the whole stack and
\* leaves mapping and index as they were, whatever the depth; a rollback()
\* right after it reports NO TRANSACTION and changes nothing, so that
\* begin(); set(a,1); begin(); set(a,2); commit(); rollback() leaves a at "2".
CommitFlattensAllLevels ==
    [][/\ (CommitCommand /\ _history # <<>>)
            => /\ _history' = <<>>
               /\ _db' = _db /\ _counts' = _counts /\ out' = <<>>
               /\ rollback(SelfAfter) = [SelfAfter EXCEPT !.out = NoTransaction]
       /\ session' = CommitScript
            => (out' = NoTransaction /\ _history' = <<>> /\ get(SelfAfter, "a") = "2")
      ]_vars

\* C4 witness: the example session has run to its end.
CommitFlattensWitness ==
    /\ session = CommitScript
    /\ out = NoTransaction
    /\ get(Self, "a") = "2"

\* C5: a rollback() or commit() called with an empty snapshot stack reports
\* NO TRANSACTION and leaves mapping, index and stack unchanged.
NoTransactionDiagnostics ==
    [][(_history = <<>> /\ (RollbackCommand \/ CommitCommand))
         => (out' = NoTransaction /\ UNCHANGED <<_db, _counts, _history>>)]_vars

\* C5 witness: the diagnostic has been printed on a store that holds a key.
NoTransactionWitness ==
    /\ out = NoTransaction
    /\ _history = <<>>
    /\ _db # <<>>

\* C6 (as claimed): while no begin() has been called since the start or the
\* last commit, a rollback() or commit() after any sets and unsets reports
\* NO TRANSACTION and leaves mapping and index unchanged.
UndoIsTransactionScoped ==
    [][(begun = 0 /\ (RollbackCommand \/ CommitCommand))
         => (out' = NoTransaction /\ UNCHANGED <<_db, _counts>>)]_vars

\* C7 (as claimed): the depth of the snapshot stack is the number of begin()
\* calls since the last successful commit minus the number of successful
\* rollbacks since then.
DepthIsOpenBegins == Len(_history) = begun - undone

\* C8: unset(k) of a key that is not in the mapping pushes no snapshot and
\* leaves mapping, index and stack unchanged, so the rollback() that follows
\* gives the state it would have given without the unset.
UnsetAbsentIsNoOp ==
    [][\A key \in Keys :
         (UnsetCommand(key) /\ ~DictHas(_db, key))
           => /\ UNCHANGED <<_db, _counts, _history>>
              /\ out' = <<>>
              /\ rollback(SelfAfter) = rollback(Self)]_vars

\* C8 witness: set(a,1); begin(); unset(b); rollback() has run, and the
\* rollback popped the snapshot of begin().
UnsetAbsentWitness ==
    /\ session = UnsetScript
    /\ get(Self, "a") = "1"
    /\ Len(_history) = 1

\* C9: find(v) prints exactly the keys whose value is v, each once, in
\* ascending order whatever the insertion order, and NULL exactly when no
\* key has the value v.
FindPrintsSortedKeys ==
    [][\A value \in Values :
         FindCommand(value)
           => LET holders == {key \in FindKeys : get(Self, key) = value}
              IN  IF holders = {}
                  THEN out' = <<"NULL">>
                  ELSE /\ Len(out') = Cardinality(holders)
                       /\ {out'[i] : i \in 1..Len(out')} = holders
                       /\ \A i, j \in 1..Len(out') : i < j => Ord[out'[i]] < Ord[out'[j]]
      ]_vars

\* C9 witness: a, c, b were set to "1" in this order and find printed a b c.
FindSortedWitness ==
    /\ KeysWith(_db, "1") = <<"a", "c", "b">>
    /\ out = <<"a", "b", "c">>

\* C10: no index entry is ever below zero, and counts(v) is 0 for every value
\* no key holds: one never used, and one whose holders were all overwritten,
\* unset or rolled back.
CountsNonNegative ==
    /\ \A value \in DOMAIN _counts : _counts[value] >= 0
    /\ \A value \in Values :
         Holders(value) = 0 => counts(Self, value).out = <<"0">>

\* C10 witness: counts printed 0 with "1" never used and with the entry of
\* "2" back at 0.
CountsZeroWitness ==
    /\ out = <<"0">>
    /\ "1" \notin DOMAIN _counts
    /\ "2" \in DOMAIN _counts /\ _counts["2"] = 0

\* What each command of EndToEndScript is to print, <<>> for no output.
EndToEndOutputs ==
    << <<>>, <<"10">>, <<>>, <<"1">>, <<>>, <<>>, <<"2">>, <<"a", "b">>, <<>>,
       <<"1">>, <<"10">> >>

\* C11: on a fresh store the lines SET a 10; GET a; SET b 20; COUNTS 10;
\* BEGIN; SET a 20; COUNTS 20; FIND 20; ROLLBACK; COUNTS 20; GET a print
\* 10, 1, 2, "a b", 1, 10 for the GET, COUNTS and FIND lines and nothing for
\* the SET, BEGIN and ROLLBACK lines.
EndToEndScenario ==
    \A n \in 1..Len(EndToEndScript) :
        session = SubSeq(EndToEndScript, 1, n) => out = EndToEndOutputs[n]

\* C11 witness: the whole scenario has run and its last line printed 10.
EndToEndWitness ==
    /\ session = EndToEndScript
    /\ out = <<"10">>
    /\ Len(_history) = 3

\* The number of arguments each verb takes.
ArgCount ==
    [verb \in {"SET", "GET", "UNSET", "COUNTS", "FIND", "BEGIN", "ROLLBACK",
               "COMMIT", "END"} |->
        CASE verb = "SET" -> 2
          [] verb \in {"GET", "UNSET", "COUNTS", "FIND"} -> 1
          [] OTHER -> 0]

\* The line has words and is no recognized verb with its number of arguments.
Malformed(line) ==
    LET parts == split(line)
    IN  /\ parts # <<>>
        /\ \/ upper(parts[1]) \notin DOMAIN ArgCount
           \/ Len(parts) - 1 # ArgCount[upper(parts[1])]

\* C12 (as claimed): a line with an unrecognized verb, or with a recognized
\* verb and another number of arguments than it takes, prints UNKNOWN COMMAND,
\* leaves mapping, index and snapshot stack unchanged and does not end the
\* session.
MalformedNeverReachesStore ==
    [][\A line \in ParseLines :
         (Malformed(line) /\ Iteration(line, ParseDepth))
           => /\ out' = UnknownLine
              /\ UNCHANGED <<_db, _counts, _history>>
              /\ running']_vars

\* C13: get(k), counts(v) and find(v), for present and absent arguments,
\* leave the mapping, the index (the entries that exist included) and the
\* snapshot stack unchanged.
ReadsArePure ==
    [][\A word \in FindKeys \cup Values :
         (GetCommand(word) \/ CountsCommand(word) \/ FindCommand(word))
           => UNCHANGED <<_db, _counts, _history>>]_vars

\* C13 witness: a read of something absent has printed its marker, on a store
\* that holds a key, has a snapshot and has no index entry for some value.
ReadsArePureWitness ==
    /\ out \in {<<"NULL">>, <<"0">>}
    /\ _db # <<>>
    /\ _history # <<>>
    /\ DOMAIN _counts # Values

\* C14: begin() raises the depth of the snapshot stack by exactly 1 and leaves
\* mapping and index unchanged; commit() at a depth above 0 sets it to 0;
\* rollback() lowers it by exactly 1 at a depth above 0 and leaves it at 0
\* otherwise; the depth is never negative.
DepthTransitions ==
    [][/\ BeginCommand
            => (Len(_history') = Len(_history) + 1 /\ UNCHANGED <<_db, _counts>>)
       /\ (CommitCommand /\ Len(_history) > 0) => Len(_history') = 0
       /\ RollbackCommand
            => Len(_history') = IF Len(_history) > 0 THEN Len(_history) - 1 ELSE 0
       /\ Len(_history') >= 0
      ]_vars

\* C14 witness: a second, nested begin() has just pushed its snapshot.
DepthTransitionsWitness ==
    /\ begun = 2
    /\ beginAt >= 2
    /\ beginAt = Len(_history)

\* C15: a rollback() at depth n > 0 replaces mapping and index by the top
\* snapshot and leaves the n-1 snapshots beneath it as they were, in their
\* order, so that the next rollback() pops the next one down.
RollbackPopsTopOnly ==
    [][(RollbackCommand /\ _history # <<>>)
         => LET n == Len(_history)
            IN  /\ _db' = _history[n][1]
                /\ _counts' = _history[n][2]
                /\ _history' = SubSeq(_history, 1, n - 1)
                /\ n >= 2 => /\ rollback(SelfAfter).db = _history[n - 1][1]
                             /\ rollback(SelfAfter).counts = _history[n - 1][2]
      ]_vars

\* C15 witness: begin(); set(a,1); begin(); set(a,2); rollback() has run, and
\* three snapshots are left.
RollbackPopsTopWitness ==
    /\ session = SubSeq(RollbackScript, 1, 5)
    /\ Len(_history) = 3
    /\ _history[3] = <<_db, _counts>>

\* C16: a snapshot is the (mapping, index) pair that was current when it was
\* pushed, and no later command alters it while it is on the stack, a set or
\* unset after a rollback included.
SnapshotsIndependent ==
    [][LET n == Len(_history)
           m == Len(_history')
       IN  /\ \A i \in 1..(IF n < m THEN n ELSE m) : _history'[i] = _history[i]
           /\ m > n => (m = n + 1 /\ _history'[m] = <<_db, _counts>>)
      ]_vars

\* C16 witness: begin(); set(a,1); rollback(); set(a,2) has run and the
\* snapshot of begin() is still the empty store.
SnapshotsIndependentWitness ==
    /\ session = IndependenceScript
    /\ _history[1] = << <<>>, <<>> >>
    /\ get(Self, "a") = "2"

\* C17: after set(k,v) get(k) is v and every other key has the value it had;
\* if k held the value o the index entry of o is one lower and that of v one
\* higher (no change when o = v), and if k was absent only the entry of v
\* is one higher.
SetUpdatesKeyAndIndex ==
    [][\A key \in Keys, value \in Values :
         SetCommand(key, value)
           => LET old == get(Self, key)
              IN  /\ get(SelfAfter, key) = value
                  /\ \A other \in Keys \ {key} : get(SelfAfter, other) = get(Self, other)
                  /\ out' = <<>>
                  /\ \A word \in Values :
                       CountsGet(_counts', word)
                         = CountsGet(_counts, word)
                             + (IF word = value THEN 1 ELSE 0)
                             - (IF word = old THEN 1 ELSE 0)
      ]_vars

\* C17 witness: set(a,1); set(a,1) has run and the count of "1" is 1.
SetUpdatesWitness ==
    /\ session = SameValueScript
    /\ get(Self, "a") = "1"
    /\ CountsGet(_counts, "1") = 1

RECURSIVE Rollbacks(_, _)
Rollbacks(self, n) == IF n = 0 THEN self ELSE Rollbacks(rollback(self), n - 1)

====
